---------------------------- MODULE Spec2Model ----------------------------
(***************************************************************************)
(* State-machine model of packages/api/src/purview-wrapper.ts: the HTTP    *)
(* client helpers for the Purview / Graph "data security and governance"   *)
(* endpoints, the processContent payload builder, the identifier generator *)
(* and the offline task orchestrator.                                      *)
(*                                                                         *)
(* One behaviour is one invocation of one exported function by the host.   *)
(* The environment is: process.env, the HTTP transport behind fetch, the   *)
(* state of the generator behind Math.random, and the wall clock.          *)
(*                                                                         *)
(* JavaScript strings are sequences of tokens (a token is "/" or a chunk   *)
(* without a slash; in a GUID a token is one character), wrapped with the  *)
(* JavaScript type so that null, undefined and "" stay distinct.           *)
(***************************************************************************)
EXTENDS Integers, Sequences, FiniteSets, TLC

VARIABLES
  env,        \* process.env: PURVIEW_BASE_URL, GRAPH_BASE_URL
  rng,        \* state of the generator behind Math.random
  clock,      \* wall clock, milliseconds since the epoch
  pc,         \* control location of the invocation
  call,       \* the exported function the host invoked, with its arguments
  pcCall,     \* frame of invokeProcessContentApi: arguments and who called
  cbCall,     \* frame of constructProcessContentRequestBody: arguments, caller, fields so far
  ret,        \* value a callee handed back to enqueueOfflinePurviewTasksAsync
  exc,        \* error in flight towards the catch of enqueueOfflinePurviewTasksAsync
  requests,   \* every request handed to fetch, in order
  responses,  \* how each of those requests settled, in order
  raised,     \* the errors thrown by a throw statement or a rejected await, in order
  logs,       \* console.error / context.log / context.error calls, in order
  submissions,\* the arguments of every call of invokeProcessContentApi, in order
  completions,\* how each of those calls ended: a returned value or a thrown error
  outcome     \* what reached the host: a returned value or a thrown error

vars == <<env, rng, clock, pc, call, pcCall, cbCall, ret, exc,
          requests, responses, raised, logs, submissions, completions, outcome>>

---------------------------------------------------------------------------
(* Bounds of the model *)

\* Math.random() returns k / RandResolution for some k in 0 .. RandResolution-1
RandResolution == 64
\* the wall clock advances at most this many milliseconds during an invocation
MaxClock == 2
\* sequenceNo arguments range over 0 .. MaxSequenceNo
MaxSequenceNo == 2

---------------------------------------------------------------------------
(* JavaScript values *)

Undefined == [js |-> "undefined"]
Null == [js |-> "null"]
Str(tokens) == [js |-> "string", v |-> tokens]
IsStr(x) == x.js = "string"
\* ToBoolean of undefined, null or a string
Truthy(x) == IsStr(x) /\ x.v # <<>>
None == [kind |-> "none"]
NoCall == [fn |-> "none"]

\* s.replace(/\/+$/, '')
RECURSIVE StripTrailingSlashes(_)
StripTrailingSlashes(s) ==
  IF s # <<>> /\ s[Len(s)] = "/"
    THEN StripTrailingSlashes(SubSeq(s, 1, Len(s) - 1))
    ELSE s

\* s.replace(/^\/+/, '')
RECURSIVE StripLeadingSlashes(_)
StripLeadingSlashes(s) ==
  IF s # <<>> /\ s[1] = "/"
    THEN StripLeadingSlashes(Tail(s))
    ELSE s

---------------------------------------------------------------------------
(* generateGuid *)

HexDigits == <<"0","1","2","3","4","5","6","7","8","9","a","b","c","d","e","f">>

\* Number.prototype.toString(16) of a non-negative integer
RECURSIVE ToString16(_)
ToString16(n) ==
  IF n < 16 THEN <<HexDigits[n + 1]>>
  ELSE ToString16(n \div 16) \o <<HexDigits[(n % 16) + 1]>>

\* numerator k of the value k / RandResolution the next Math.random() returns
RandomNumerator(g) == (g.seed + g.pos * g.stride) % RandResolution
AdvanceRng(g) == [g EXCEPT !.pos = @ + 1]

\* Math.round instead of Math.trunc
TruncRandomTimes16_Round(g) == (2 * RandomNumerator(g) * 16 + RandResolution) \div (2 * RandResolution)
\* Math.trunc(Math.random() * 16)
TruncRandomTimes16(g) == (RandomNumerator(g) * 16) \div RandResolution

GuidTemplate ==
  <<"x","x","x","x","x","x","x","x","-","x","x","x","x","-","4","x","x","x","-",
    "y","x","x","x","-","x","x","x","x","x","x","x","x","x","x","x","x">>

\* the for loop of generateGuid from template position i on, with guid built so
\* far and generator state g; yields the finished guid and the generator state
RECURSIVE GuidLoop(_, _, _)
GuidLoop(i, guid, g) ==
  IF i > Len(GuidTemplate) THEN [guid |-> guid, rng |-> g]
  ELSE LET char == GuidTemplate[i] IN
    IF char = "x" THEN
      LET r == TruncRandomTimes16(g)
      IN GuidLoop(i + 1, guid \o ToString16(r), AdvanceRng(g))
    ELSE IF char = "y" THEN
      LET r == (TruncRandomTimes16(g) % 4) + 8
      IN GuidLoop(i + 1, guid \o ToString16(r), AdvanceRng(g))
    ELSE GuidLoop(i + 1, guid \o <<char>>, g)

generateGuid(g) == GuidLoop(1, <<>>, g)

---------------------------------------------------------------------------
(* Initial states *)

RngStates == [seed : 0 .. RandResolution - 1, stride : 0 .. RandResolution - 1, pos : {0}]

PurviewBaseUrls == {Undefined, Str(<<>>), Str(<<"https://purview.test">>),
                    Str(<<"https://purview.test", "/", "/">>)}
GraphBaseUrls == {Undefined, Str(<<"/">>), Str(<<"https://graph.test", "/">>)}

InitCommon ==
  /\ clock = 0
  /\ pc = "idle"
  /\ call = NoCall
  /\ pcCall = None
  /\ cbCall = None
  /\ ret = None
  /\ exc = None
  /\ requests = <<>>
  /\ responses = <<>>
  /\ raised = <<>>
  /\ logs = <<>>
  /\ outcome = None
  /\ submissions = <<>>
  /\ completions = <<>>

Init ==
  /\ InitCommon
  /\ env \in [PURVIEW_BASE_URL : PurviewBaseUrls, GRAPH_BASE_URL : GraphBaseUrls]
  /\ rng = [seed |-> RandResolution - 1, stride |-> 7, pos |-> 0]

\* generateGuid alone, over every state of the generator
InitGuid ==
  /\ InitCommon
  /\ env = [PURVIEW_BASE_URL |-> Undefined, GRAPH_BASE_URL |-> Undefined]
  /\ rng \in RngStates

Returned(v) == [kind |-> "return", value |-> v]
Threw(e) == [kind |-> "throw", error |-> e]

---------------------------------------------------------------------------
(* The transport behind fetch, errors, logging *)

\* a response whose headers have arrived delivers its body: text() and the
\* read inside json() do not fail
TransportError == [name |-> "FetchError", message |-> "request failed"]
ResponseEtags == {Null, Str(<<"W/abc">>)}
ResponseBodies == {Str(<<"{ok:true}">>), Str(<<>>)}
FetchOutcomes ==
  {[kind |-> "reject", error |-> TransportError]} \cup
  [kind : {"response"}, status : {200, 403}, etag : ResponseEtags, body : ResponseBodies]

\* response.ok
ResponseOk(r) == r.status >= 200 /\ r.status <= 299
\* response.headers.get('etag'): null when the header is absent
HeadersGet_etag(r) == r.etag
\* response.headers.entries()
HeadersEntries(r) == IF r.etag = Null THEN <<>> ELSE <<<<"etag", r.etag>>>>
\* response.json(): the parsed body, or a SyntaxError for a body that is no JSON text
JsonParses(text) == text = Str(<<"{ok:true}">>)
JsonParse(text) == [ok |-> TRUE]
JsonSyntaxError == [name |-> "SyntaxError", message |-> "Unexpected end of JSON input"]
\* JSON.stringify of a tree of strings, integers and false: the text holds the tree
JsonStringify(o) == [json |-> o]

ConfigError ==
  [name |-> "Error", message |-> "PURVIEW_BASE_URL is not defined in the environment variables."]
ApiError(r) ==
  [name |-> "Error", template |-> "API call failed with status ${status}: ${errorText}",
   status |-> r.status, errorText |-> r.body]
LabelInfoError(r) ==
  [name |-> "Error", template |-> "LabelInfo call failed - ${status}: ${errorText}",
   status |-> r.status, errorText |-> r.body]

Log(sink, text, args) == [sink |-> sink, text |-> text, args |-> args]

\* the catch block rethrows after wrapping the error
Rethrow_Wrapped(error) == [name |-> "Error", message |-> "request failed", cause |-> error]
\* throw error, in a catch block
Rethrow(error) == error

\* an error thrown inside the try of a function the host called: the catch logs
\* it on errSink and rethrows it to the host
CatchToHost(error, errSink, errText) ==
  /\ raised' = Append(raised, error)
  /\ logs' = Append(logs, Log(errSink, errText, <<error>>))
  /\ outcome' = Threw(Rethrow(error))
  /\ pc' = "done"

---------------------------------------------------------------------------
(* invokeProtectionScopeApi *)

AccessTokens == {Str(<<"token">>)}
Bearer(accessToken) == <<"Bearer ">> \o accessToken.v

HostInvokeProtectionScopeApi ==
  /\ pc = "idle"
  /\ \E accessToken \in AccessTokens :
       call' = [fn |-> "invokeProtectionScopeApi", accessToken |-> accessToken]
  /\ pc' = "ps_try"
  /\ UNCHANGED <<env, rng, clock, pcCall, cbCall, ret, exc, requests, responses,
                 raised, logs, outcome, submissions, completions>>

\* the fetch is issued although PURVIEW_BASE_URL is missing
PurviewBaseUrlMissing_Never(purviewBaseUrl) == FALSE
\* !purviewBaseUrl
PurviewBaseUrlMissing(purviewBaseUrl) == ~Truthy(purviewBaseUrl)

PurviewUrl(purviewBaseUrl, path) ==
  StripTrailingSlashes(IF IsStr(purviewBaseUrl) THEN purviewBaseUrl.v ELSE <<"undefined">>)
    \o <<"/">> \o StripLeadingSlashes(path)

\* from the start of the try to the await of fetch
ProtectionScopeTry ==
  /\ pc = "ps_try"
  /\ LET purviewBaseUrl == env.PURVIEW_BASE_URL IN
     IF PurviewBaseUrlMissing(purviewBaseUrl)
       THEN /\ CatchToHost(ConfigError, "console.error", "Error invoking API:")
            /\ UNCHANGED requests
       ELSE /\ requests' = Append(requests,
                 [url |-> PurviewUrl(purviewBaseUrl,
                            <<"me/dataSecurityAndGovernance/protectionScopes/compute">>),
                  method |-> "POST",
                  headers |-> [Authorization |-> Bearer(call.accessToken),
                               ContentType |-> "application/json"],
                  body |-> JsonStringify(<<>>)])
            /\ pc' = "ps_await"
            /\ UNCHANGED <<raised, logs, outcome>>
  /\ UNCHANGED <<env, rng, clock, call, pcCall, cbCall, ret, exc, responses, submissions, completions>>

\* the etag header is not read
ProtectionScopeResult_NoEtag(r) == [body |-> JsonParse(r.body), etag |-> Null]
\* const etag = response.headers.get('etag'); const body = await response.json();
\* return { body, etag }
ProtectionScopeResult(r) == [body |-> JsonParse(r.body), etag |-> HeadersGet_etag(r)]

\* from the settling of fetch to the return or the rethrow
ProtectionScopeSettle ==
  /\ pc = "ps_await"
  /\ \E r \in FetchOutcomes :
       /\ responses' = Append(responses, r)
       /\ IF r.kind = "reject"
            THEN CatchToHost(r.error, "console.error", "Error invoking API:")
          ELSE IF ~ResponseOk(r)
            THEN CatchToHost(ApiError(r), "console.error", "Error invoking API:")
          ELSE IF ~JsonParses(r.body)
            THEN CatchToHost(JsonSyntaxError, "console.error", "Error invoking API:")
          ELSE /\ outcome' = Returned(ProtectionScopeResult(r))
               /\ pc' = "done"
               /\ UNCHANGED <<raised, logs>>
  /\ UNCHANGED <<env, rng, clock, call, pcCall, cbCall, ret, exc, requests, submissions, completions>>

---------------------------------------------------------------------------
(* invokeUserRightsForLables, invokeUserRightsForSubLables, invokeLabelInheritance *)

\* process.env.GRAPH_BASE_URL?.replace(/\/+$/, '') || 'https://graph.microsoft.com/v1.0'
GraphBaseUrl ==
  LET stripped == IF IsStr(env.GRAPH_BASE_URL)
                    THEN Str(StripTrailingSlashes(env.GRAPH_BASE_URL.v))
                    ELSE Undefined
  IN IF Truthy(stripped) THEN stripped.v ELSE <<"https://graph.microsoft.com/v1.0">>

LabelIds == {Str(<<"id-1">>), Str(<<"id-2">>)}
LabelIdLists == {<<>>, <<Str(<<"id-1">>)>>, <<Str(<<"id-1">>), Str(<<"id-2">>)>>}

\* labelids.map((id) => `"${id}"`).join(',')
RECURSIVE IdsSegment(_)
IdsSegment(labelids) ==
  IF labelids = <<>> THEN <<>>
  ELSE LET quoted == <<"\"">> \o Head(labelids).v \o <<"\"">> IN
    IF Len(labelids) = 1 THEN quoted
    ELSE quoted \o <<",">> \o IdsSegment(Tail(labelids))

LabelsUrl ==
  GraphBaseUrl \o <<"/security/dataSecurityAndGovernance/sensitivityLabels?$expand=rights,sublabels">>
SubLabelsUrl(labelId) ==
  GraphBaseUrl \o <<"/security/dataSecurityAndGovernance/sensitivityLabels/">>
    \o labelId.v \o <<"/rights">>
InheritanceUrl(labelids) ==
  GraphBaseUrl
    \o <<"/security/dataSecurityAndGovernance/sensitivityLabels/computeInheritance(labelIds=[">>
    \o IdsSegment(labelids) \o <<"],locale='en-US',contentFormats=[\"File\"])">>

LabelFns == {"invokeUserRightsForLables", "invokeUserRightsForSubLables", "invokeLabelInheritance"}

HostInvokeUserRightsForLables ==
  /\ pc = "idle"
  /\ \E accessToken \in AccessTokens :
       call' = [fn |-> "invokeUserRightsForLables", accessToken |-> accessToken]
  /\ pc' = "labels_try"
  /\ UNCHANGED <<env, rng, clock, pcCall, cbCall, ret, exc, requests, responses,
                 raised, logs, outcome, submissions, completions>>

HostInvokeUserRightsForSubLables ==
  /\ pc = "idle"
  /\ \E accessToken \in AccessTokens, labelId \in LabelIds :
       call' = [fn |-> "invokeUserRightsForSubLables", accessToken |-> accessToken,
                labelId |-> labelId]
  /\ pc' = "sublabels_try"
  /\ UNCHANGED <<env, rng, clock, pcCall, cbCall, ret, exc, requests, responses,
                 raised, logs, outcome, submissions, completions>>

HostInvokeLabelInheritance ==
  /\ pc = "idle"
  /\ \E accessToken \in AccessTokens, labelids \in LabelIdLists :
       call' = [fn |-> "invokeLabelInheritance", accessToken |-> accessToken,
                labelids |-> labelids]
  /\ pc' = "inheritance_try"
  /\ UNCHANGED <<env, rng, clock, pcCall, cbCall, ret, exc, requests, responses,
                 raised, logs, outcome, submissions, completions>>

\* the GET the three label functions issue: log the url, fetch it
LabelFetch(url, logText) ==
  /\ logs' = Append(logs, Log("context.log", logText, <<url>>))
  /\ requests' = Append(requests,
       [url |-> url,
        method |-> "GET",
        headers |-> [Authorization |-> Bearer(call.accessToken),
                     Accept |-> "application/json",
                     UserAgent |-> "Purview-API-Sample"]])
  /\ pc' = "label_await"
  /\ UNCHANGED <<env, rng, clock, call, pcCall, cbCall, ret, exc, responses, raised, outcome, submissions, completions>>

UserRightsForLablesTry ==
  /\ pc = "labels_try"
  /\ LabelFetch(LabelsUrl, "invokeUserRightsForLables: ${url}")

UserRightsForSubLablesTry ==
  /\ pc = "sublabels_try"
  /\ LabelFetch(SubLabelsUrl(call.labelId), "invokeUserRightsForSubLables: ${url}")

LabelInheritanceTry ==
  /\ pc = "inheritance_try"
  /\ LabelFetch(InheritanceUrl(call.labelids), "invokeLabelInheritance: ${url}")

\* the text logged with the body on success
LabelResponseLogText ==
  IF call.fn = "invokeLabelInheritance"
    THEN "invokeUserRightsForLables response:"
    ELSE "Graph label endpoint response:"

\* from the settling of fetch to the return or the rethrow, the same in the three
LabelSettle ==
  /\ pc = "label_await"
  /\ \E r \in FetchOutcomes :
       /\ responses' = Append(responses, r)
       /\ IF r.kind = "reject"
            THEN CatchToHost(r.error, "context.error", "Error retrieving label info:")
          ELSE IF ~ResponseOk(r)
            THEN CatchToHost(LabelInfoError(r), "context.error",
                             "Error retrieving label info:")
          ELSE /\ logs' = Append(logs, Log("context.log", LabelResponseLogText, <<r.body>>))
               /\ outcome' = Returned(r.body)
               /\ pc' = "done"
               /\ UNCHANGED raised
  /\ UNCHANGED <<env, rng, clock, call, pcCall, cbCall, ret, exc, requests, submissions, completions>>

---------------------------------------------------------------------------
(* invokeProcessContentApi *)

Etags == {Null, Str(<<>>), Str(<<"W/abc">>)}

HostInvokeProcessContentApi ==
  /\ pc = "idle"
  /\ \E accessToken \in AccessTokens, etag \in Etags :
       /\ call' = [fn |-> "invokeProcessContentApi", accessToken |-> accessToken,
                   etag |-> etag, requestBody |-> [contentToProcess |-> <<>>]]
       /\ pcCall' = [accessToken |-> accessToken, etag |-> etag,
                     requestBody |-> [contentToProcess |-> <<>>], caller |-> "host"]
  /\ submissions' = Append(submissions, pcCall')
  /\ pc' = "pc_try"
  /\ UNCHANGED <<env, rng, clock, cbCall, ret, exc, requests, responses,
                 raised, logs, outcome, completions>>

\* the header is set to the etag as passed
IfNoneMatch_Raw(etag) == etag
\* etag || ''
IfNoneMatch(etag) == IF Truthy(etag) THEN etag ELSE Str(<<>>)

\* a failed upload submission is caught in its branch and the work goes on
AfterSubmissionFailure_Continue(caller) ==
  IF caller = "uploadText" THEN "enq_download" ELSE "enq_catch"
\* where a throw of invokeProcessContentApi lands in enqueueOfflinePurviewTasksAsync:
\* both awaits stand in the one try, whose catch is the only handler
AfterSubmissionFailure(caller) == "enq_catch"

\* an error thrown inside the try of invokeProcessContentApi: the catch logs it and
\* rethrows it, to the host or into enqueueOfflinePurviewTasksAsync
ProcessContentCatch(error) ==
  /\ raised' = Append(raised, error)
  /\ logs' = Append(logs, Log("console.error", "Error invoking Process Content API:", <<error>>))
  /\ completions' = Append(completions, Threw(Rethrow(error)))
  /\ IF pcCall.caller = "host"
       THEN /\ outcome' = Threw(Rethrow(error))
            /\ pc' = "done"
            /\ UNCHANGED <<exc, ret>>
       ELSE /\ exc' = Rethrow(error)
            /\ pc' = AfterSubmissionFailure(pcCall.caller)
            /\ UNCHANGED <<outcome, ret>>

\* from the start of the try to the await of fetch
ProcessContentTry ==
  /\ pc = "pc_try"
  /\ LET purviewBaseUrl == env.PURVIEW_BASE_URL IN
     IF PurviewBaseUrlMissing(purviewBaseUrl)
       THEN /\ ProcessContentCatch(ConfigError)
            /\ UNCHANGED requests
       ELSE /\ requests' = Append(requests,
                 [url |-> PurviewUrl(purviewBaseUrl,
                            <<"me/dataSecurityAndGovernance/processContent">>),
                  method |-> "POST",
                  headers |-> [Authorization |-> Bearer(pcCall.accessToken),
                               ContentType |-> "application/json",
                               IfNoneMatch |-> IfNoneMatch(pcCall.etag)],
                  body |-> JsonStringify(pcCall.requestBody)])
            /\ pc' = "pc_await"
            /\ UNCHANGED <<raised, logs, outcome, exc, ret, completions>>
  /\ UNCHANGED <<env, rng, clock, call, pcCall, cbCall, responses, submissions>>

\* from the settling of fetch to the return or the rethrow
ProcessContentSettle ==
  /\ pc = "pc_await"
  /\ \E r \in FetchOutcomes :
       /\ responses' = Append(responses, r)
       /\ IF r.kind = "reject"
            THEN ProcessContentCatch(r.error)
          ELSE IF ~ResponseOk(r)
            THEN ProcessContentCatch(ApiError(r))
          ELSE LET result == [body |-> r.body, headers |-> r] IN
               /\ completions' = Append(completions, Returned(result))
               /\ IF pcCall.caller = "host"
                    THEN /\ outcome' = Returned(result)
                         /\ pc' = "done"
                         /\ UNCHANGED ret
                    ELSE /\ ret' = result
                         /\ pc' = IF pcCall.caller = "uploadText"
                                    THEN "enq_upload_resume" ELSE "enq_download_resume"
                         /\ UNCHANGED outcome
               /\ UNCHANGED <<raised, logs, exc>>
  /\ UNCHANGED <<env, rng, clock, call, pcCall, cbCall, requests, submissions>>

---------------------------------------------------------------------------
(* constructProcessContentRequestBody *)

\* decimal digits of n, padded with zeros to width w
Pad(n, w) ==
  IF w = 3 /\ n < 10 THEN "00" \o ToString(n)
  ELSE IF (w = 3 /\ n < 100) \/ (w = 2 /\ n < 10) THEN "0" \o ToString(n)
  ELSE ToString(n)

\* new Date().toISOString() at wall-clock time ms, for ms below one minute
ToISOString(ms) ==
  Str(<<"1970-01-01T00:00:", Pad(ms \div 1000, 2), ".", Pad(ms % 1000, 3), "Z">>)

Names == {Str(<<"app">>)}
ApplicationIds == {Str(<<"app-id">>)}
SessionIds == {Str(<<"sess-1">>)}
Prompts == {Str(<<"hello">>)}
Responses == {Str(<<"world">>)}
Activities == {Str(<<"uploadText">>), Str(<<"downloadText">>)}
SequenceNos == 0 .. MaxSequenceNo

HostConstructProcessContentRequestBody ==
  /\ pc = "idle"
  /\ \E contentData \in Prompts, name \in Names, sequenceNo \in SequenceNos,
        correlationId \in SessionIds, activity \in Activities,
        applicationId \in ApplicationIds :
       /\ call' = [fn |-> "constructProcessContentRequestBody", contentData |-> contentData,
                   name |-> name, sequenceNo |-> sequenceNo, correlationId |-> correlationId,
                   activity |-> activity, applicationId |-> applicationId]
       /\ cbCall' = [contentData |-> contentData, name |-> name, sequenceNo |-> sequenceNo,
                     correlationId |-> correlationId, activity |-> activity,
                     applicationId |-> applicationId, caller |-> "host"]
  /\ pc' = "cb_identifier"
  /\ UNCHANGED <<env, rng, clock, pcCall, ret, exc, requests, responses,
                 raised, logs, outcome, submissions, completions>>

\* identifier: generateGuid()
ConstructIdentifier ==
  /\ pc = "cb_identifier"
  /\ LET g == generateGuid(rng) IN
       /\ rng' = g.rng
       /\ cbCall' = [contentData |-> cbCall.contentData, name |-> cbCall.name,
                     sequenceNo |-> cbCall.sequenceNo,
                     correlationId |-> cbCall.correlationId,
                     activity |-> cbCall.activity,
                     applicationId |-> cbCall.applicationId, caller |-> cbCall.caller,
                     identifier |-> Str(g.guid)]
  /\ pc' = "cb_created"
  /\ UNCHANGED <<env, clock, call, pcCall, ret, exc, requests, responses,
                 raised, logs, outcome, submissions, completions>>

\* createdDateTime: new Date().toISOString()
ConstructCreatedDateTime ==
  /\ pc = "cb_created"
  /\ cbCall' = [contentData |-> cbCall.contentData, name |-> cbCall.name,
                sequenceNo |-> cbCall.sequenceNo,
                correlationId |-> cbCall.correlationId,
                activity |-> cbCall.activity,
                applicationId |-> cbCall.applicationId, caller |-> cbCall.caller,
                identifier |-> cbCall.identifier,
                createdDateTime |-> ToISOString(clock)]
  /\ pc' = "cb_modified"
  /\ UNCHANGED <<env, rng, clock, call, pcCall, ret, exc, requests, responses,
                 raised, logs, outcome, submissions, completions>>

\* the object the function returns, modifiedDateTime being read last
ProcessContentRequestBody(f, modifiedDateTime) ==
  [contentToProcess |->
    [contentEntries |->
       <<[odataType |-> "microsoft.graph.processConversationMetadata",
          identifier |-> f.identifier,
          content |-> [odataType |-> "microsoft.graph.textContent", data |-> f.contentData],
          name |-> f.name,
          correlationId |-> f.correlationId,
          sequenceNumber |-> f.sequenceNo,
          isTruncated |-> FALSE,
          createdDateTime |-> f.createdDateTime,
          modifiedDateTime |-> modifiedDateTime]>>,
     activityMetadata |-> [activity |-> f.activity],
     deviceMetadata |->
       [deviceType |-> "managed",
        operatingSystemSpecifications |->
          [operatingSystemPlatform |-> "Windows 11",
           operatingSystemVersion |-> "10.0.26100.0"]],
     protectedAppMetadata |->
       [name |-> f.name, version |-> "1.0",
        applicationLocation |->
          [odataType |-> "microsoft.graph.policyLocationApplication",
           value |-> f.applicationId]],
     integratedAppMetadata |-> [name |-> f.name, version |-> "1.0"]]]

\* modifiedDateTime: new Date().toISOString(), and the return
ConstructModifiedDateTime ==
  /\ pc = "cb_modified"
  /\ LET body == ProcessContentRequestBody(cbCall, ToISOString(clock)) IN
       IF cbCall.caller = "host"
         THEN /\ outcome' = Returned(body)
              /\ pc' = "done"
              /\ UNCHANGED ret
         ELSE /\ ret' = body
              /\ pc' = IF cbCall.caller = "uploadText"
                         THEN "enq_upload_submit" ELSE "enq_download_submit"
              /\ UNCHANGED outcome
  /\ UNCHANGED <<env, rng, clock, call, pcCall, cbCall, exc, requests, responses,
                 raised, logs, submissions, completions>>

\* the wall clock advances while a function runs
Tick ==
  /\ pc \notin {"idle", "done"}
  /\ clock < MaxClock
  /\ clock' = clock + 1
  /\ UNCHANGED <<env, rng, pc, call, pcCall, cbCall, ret, exc, requests, responses,
                 raised, logs, outcome, submissions, completions>>

---------------------------------------------------------------------------
(* enqueueOfflinePurviewTasksAsync *)

Modes == {Str(<<"evaluateOffline">>), Str(<<"EvaluateOffline">>), Str(<<"skip">>)}

HostEnqueueOfflinePurviewTasksAsync ==
  /\ pc = "idle"
  /\ \E accessToken \in AccessTokens, etag \in Etags, name \in Names,
        applicationId \in ApplicationIds, uploadTextMode \in Modes,
        downloadTextMode \in Modes, prompt \in Prompts, response \in Responses,
        sessionId \in SessionIds, sequenceNo \in SequenceNos :
       call' = [fn |-> "enqueueOfflinePurviewTasksAsync", accessToken |-> accessToken,
                etag |-> etag, name |-> name, applicationId |-> applicationId,
                uploadTextMode |-> uploadTextMode, downloadTextMode |-> downloadTextMode,
                prompt |-> prompt, response |-> response, sessionId |-> sessionId,
                sequenceNo |-> sequenceNo]
  /\ pc' = "enq_upload"
  /\ UNCHANGED <<env, rng, clock, pcCall, cbCall, ret, exc, requests, responses,
                 raised, logs, outcome, submissions, completions>>

\* every mode but "skip" selects the upload submission
UploadSelected_NotSkip(uploadTextMode) == uploadTextMode # Str(<<"skip">>)
\* uploadTextMode === 'evaluateOffline'
UploadSelected(uploadTextMode) == uploadTextMode = Str(<<"evaluateOffline">>)
\* downloadTextMode === 'evaluateOffline'
DownloadSelected(downloadTextMode) == downloadTextMode = Str(<<"evaluateOffline">>)

\* the sequence number follows the submissions made so far
DownloadSequenceNo_AfterSubmitted(sequenceNo) == sequenceNo + Len(requests)
\* sequenceNo + 1
DownloadSequenceNo(sequenceNo) == sequenceNo + 1

\* if (uploadTextMode === 'evaluateOffline') { ... constructProcessContentRequestBody(
EnqueueUploadBranch ==
  /\ pc = "enq_upload"
  /\ IF UploadSelected(call.uploadTextMode)
       THEN /\ logs' = Append(logs,
                 Log("context.log", "Handling evaluateOffline logic for uploadText...", <<>>))
            /\ cbCall' = [contentData |-> call.prompt, name |-> call.name,
                          sequenceNo |-> call.sequenceNo, correlationId |-> call.sessionId,
                          activity |-> Str(<<"uploadText">>),
                          applicationId |-> call.applicationId, caller |-> "uploadText"]
            /\ pc' = "cb_identifier"
       ELSE /\ pc' = "enq_download"
            /\ UNCHANGED <<logs, cbCall>>
  /\ UNCHANGED <<env, rng, clock, call, pcCall, ret, exc, requests, responses,
                 raised, outcome, submissions, completions>>

\* the payload is logged and invokeProcessContentApi(accessToken, etag, body) is called
EnqueueSubmit(activity, logText) ==
  /\ logs' = logs \o <<Log("context.log", logText, <<>>),
                       Log("context.log", "JSON.stringify", <<JsonStringify(ret)>>)>>
  /\ pcCall' = [accessToken |-> call.accessToken, etag |-> call.etag,
                requestBody |-> ret, caller |-> activity]
  /\ submissions' = Append(submissions, pcCall')
  /\ pc' = "pc_try"
  /\ UNCHANGED <<env, rng, clock, call, cbCall, ret, exc, requests, responses,
                 raised, outcome, completions>>

EnqueueUploadSubmit ==
  /\ pc = "enq_upload_submit"
  /\ EnqueueSubmit("uploadText", "ProcessContent Request Body:For the uploadText API(prompt)")

\* the response of the upload submission is logged
EnqueueUploadResume ==
  /\ pc = "enq_upload_resume"
  /\ logs' = logs \o
       <<Log("context.log", "Process Content API Response body for Prompt:", <<ret.body>>),
         Log("context.log", "Response Headers for Prompt:", HeadersEntries(ret.headers))>>
  /\ pc' = "enq_download"
  /\ UNCHANGED <<env, rng, clock, call, pcCall, cbCall, ret, exc, requests, responses,
                 raised, outcome, submissions, completions>>

\* if (downloadTextMode === 'evaluateOffline') { ... } return 'OK'
EnqueueDownloadBranch ==
  /\ pc = "enq_download"
  /\ IF DownloadSelected(call.downloadTextMode)
       THEN /\ logs' = Append(logs,
                 Log("context.log", "Handling evaluateOffline logic for downloadText...", <<>>))
            /\ cbCall' = [contentData |-> call.response, name |-> call.name,
                          sequenceNo |-> DownloadSequenceNo(call.sequenceNo),
                          correlationId |-> call.sessionId,
                          activity |-> Str(<<"downloadText">>),
                          applicationId |-> call.applicationId, caller |-> "downloadText"]
            /\ pc' = "cb_identifier"
            /\ UNCHANGED outcome
       ELSE /\ outcome' = Returned(Str(<<"OK">>))
            /\ pc' = "done"
            /\ UNCHANGED <<logs, cbCall>>
  /\ UNCHANGED <<env, rng, clock, call, pcCall, ret, exc, requests, responses, raised, submissions, completions>>

EnqueueDownloadSubmit ==
  /\ pc = "enq_download_submit"
  /\ EnqueueSubmit("downloadText", "ProcessContent Request Body:For the downloadText API(Response)")

\* the response of the download submission is logged; return 'OK'
EnqueueDownloadResume ==
  /\ pc = "enq_download_resume"
  /\ logs' = logs \o
       <<Log("context.log", "Process Content API Response body for Response:", <<ret.body>>),
         Log("context.log", "Process Content API Response Headers for Response:",
             HeadersEntries(ret.headers))>>
  /\ outcome' = Returned(Str(<<"OK">>))
  /\ pc' = "done"
  /\ UNCHANGED <<env, rng, clock, call, pcCall, cbCall, ret, exc, requests, responses, raised, submissions, completions>>

\* the catch reports success
EnqueueCatchOutcome_Swallow(error) == Returned(Str(<<"OK">>))
\* catch (error) { context.error(...); throw error; }
EnqueueCatchOutcome(error) == Threw(Rethrow(error))

EnqueueCatch ==
  /\ pc = "enq_catch"
  /\ logs' = Append(logs, Log("context.error", "Error invoking ProcessContent API", <<exc>>))
  /\ outcome' = EnqueueCatchOutcome(exc)
  /\ pc' = "done"
  /\ UNCHANGED <<env, rng, clock, call, pcCall, cbCall, ret, exc, requests, responses, raised, submissions, completions>>

---------------------------------------------------------------------------
(* The host calls generateGuid() *)

HostGenerateGuid ==
  /\ pc = "idle"
  /\ LET g == generateGuid(rng) IN
       /\ rng' = g.rng
       /\ outcome' = Returned(Str(g.guid))
  /\ call' = [fn |-> "generateGuid"]
  /\ pc' = "done"
  /\ UNCHANGED <<env, clock, pcCall, cbCall, ret, exc, requests, responses, raised, logs, submissions, completions>>

---------------------------------------------------------------------------
(* Specifications *)

Next ==
  \/ HostInvokeProtectionScopeApi
  \/ ProtectionScopeTry
  \/ ProtectionScopeSettle
  \/ HostInvokeUserRightsForLables
  \/ HostInvokeUserRightsForSubLables
  \/ HostInvokeLabelInheritance
  \/ UserRightsForLablesTry
  \/ UserRightsForSubLablesTry
  \/ LabelInheritanceTry
  \/ LabelSettle
  \/ HostInvokeProcessContentApi
  \/ ProcessContentTry
  \/ ProcessContentSettle
  \/ HostConstructProcessContentRequestBody
  \/ ConstructIdentifier
  \/ ConstructCreatedDateTime
  \/ ConstructModifiedDateTime
  \/ Tick
  \/ HostEnqueueOfflinePurviewTasksAsync
  \/ EnqueueUploadBranch
  \/ EnqueueUploadSubmit
  \/ EnqueueUploadResume
  \/ EnqueueDownloadBranch
  \/ EnqueueDownloadSubmit
  \/ EnqueueDownloadResume
  \/ EnqueueCatch
  \/ HostGenerateGuid

Spec == Init /\ [][Next]_vars

NextGuid == HostGenerateGuid

SpecGuid == InitGuid /\ [][NextGuid]_vars

---------------------------------------------------------------------------
(* What the claims speak of *)

EvaluateOffline == Str(<<"evaluateOffline">>)
OK == Returned(Str(<<"OK">>))
IsEnqueue == call.fn = "enqueueOfflinePurviewTasksAsync"
BothModesOffline ==
  IsEnqueue /\ call.uploadTextMode = EvaluateOffline /\ call.downloadTextMode = EvaluateOffline
\* the activity tag, the sequence number and the text of a submitted payload
TagOf(sub) == sub.requestBody.contentToProcess.activityMetadata.activity
SequenceNumberOf(sub) == sub.requestBody.contentToProcess.contentEntries[1].sequenceNumber
DataOf(sub) == sub.requestBody.contentToProcess.contentEntries[1].content.data
UploadTag == Str(<<"uploadText">>)
DownloadTag == Str(<<"downloadText">>)
Succeeded(i) == i <= Len(completions) /\ completions[i].kind = "return"
Failed(i) == i <= Len(completions) /\ completions[i].kind = "throw"
\* a request that settled with a rejected fetch or a non-success status
RequestFailed(i) ==
  i <= Len(responses) /\ (responses[i].kind = "reject" \/ ~(responses[i].status \in 200 .. 299))

\* the functions that read PURVIEW_BASE_URL, directly or through a submission
UsesPurviewBaseUrl ==
  call.fn \in {"invokeProtectionScopeApi", "invokeProcessContentApi",
               "enqueueOfflinePurviewTasksAsync"}
\* every payload built so far that has left constructProcessContentRequestBody
BuiltPayloads ==
  {submissions[i].requestBody : i \in 1 .. Len(submissions)} \cup
  (IF call.fn = "constructProcessContentRequestBody" /\ outcome.kind = "return"
     THEN {outcome.value} ELSE {})
\* invokeProtectionScopeApi has ended after its request settled
ProtectionScopeDone == call.fn = "invokeProtectionScopeApi" /\ pc = "done" /\ responses # <<>>
\* the five functions that issue a request themselves
ClientFns ==
  LabelFns \cup {"invokeProtectionScopeApi", "invokeProcessContentApi"}
HexDigitSet == {HexDigits[i] : i \in 1 .. 16}
HyphenPositions == {8, 13, 18, 23}
WellFormedGuid(s) ==
  /\ Len(s) = 36
  /\ \A p \in 0 .. 35 :
       LET c == s[p + 1] IN
         IF p \in HyphenPositions THEN c = "-"
         ELSE IF p = 14 THEN c = "4"
         ELSE IF p = 19 THEN c \in {"8", "9", "a", "b"}
         ELSE c \in HexDigitSet
GuidReturned == pc = "done" /\ call.fn = "generateGuid" /\ outcome.kind = "return"

(* C1: with both modes "evaluateOffline" the submissions are at most two and in
   order: the first is the prompt tagged "uploadText" at sequenceNo, the second
   the response tagged "downloadText" at sequenceNo + 1, made only after the
   first has returned; a finished invocation whose first submission succeeded
   has made exactly two; "OK" is returned only if both succeeded. *)
C1_TwoSubmissionsInOrder ==
  BothModesOffline =>
    /\ Len(submissions) <= 2
    /\ Len(submissions) >= 1 =>
         /\ TagOf(submissions[1]) = UploadTag
         /\ SequenceNumberOf(submissions[1]) = call.sequenceNo
         /\ DataOf(submissions[1]) = call.prompt
    /\ Len(submissions) = 2 =>
         /\ TagOf(submissions[2]) = DownloadTag
         /\ SequenceNumberOf(submissions[2]) = call.sequenceNo + 1
         /\ DataOf(submissions[2]) = call.response
         /\ Succeeded(1)
    /\ Len(requests) <= Len(responses) + 1
    /\ (pc = "done" /\ Succeeded(1)) => Len(submissions) = 2
    /\ outcome = OK => (Len(submissions) = 2 /\ Succeeded(1) /\ Succeeded(2))
\* both submissions were made and answered with success, and "OK" was returned
C1_Witness ==
  /\ BothModesOffline
  /\ pc = "done"
  /\ outcome = OK
  /\ Len(requests) = 2
  /\ call.sequenceNo = 1

(* C2: with both modes "evaluateOffline", once the first submission has failed
   no second submission is made, "OK" is not returned, and the finished
   invocation has thrown the error of the first submission. *)
C2_FirstFailureStopsAndPropagates ==
  (BothModesOffline /\ Failed(1)) =>
    /\ Len(submissions) = 1
    /\ Len(requests) <= 1
    /\ outcome # OK
    /\ pc = "done" => outcome = completions[1]
\* the upload request was answered 403 and the invocation has ended
C2_Witness ==
  /\ BothModesOffline
  /\ pc = "done"
  /\ Len(responses) = 1
  /\ responses[1].kind = "response"
  /\ responses[1].status = 403

(* C3: a slot is submitted only if its mode equals "evaluateOffline", and a
   finished invocation has submitted every such slot (the download slot unless
   the upload submission failed); with only the upload mode equal to it the one
   submission is tagged "uploadText" at sequenceNo; with neither mode equal to
   it nothing is submitted, no request is made and "OK" is returned. *)
C3_SubmitsIffEvaluateOffline ==
  IsEnqueue =>
    LET up == call.uploadTextMode = EvaluateOffline
        down == call.downloadTextMode = EvaluateOffline
        tags == {TagOf(submissions[i]) : i \in 1 .. Len(submissions)}
    IN
    /\ tags \subseteq {UploadTag, DownloadTag}
    /\ UploadTag \in tags => up
    /\ DownloadTag \in tags => down
    /\ Len(requests) <= Len(submissions)
    /\ pc = "done" =>
         /\ up => UploadTag \in tags
         /\ (down /\ ~(up /\ Failed(1))) => DownloadTag \in tags
         /\ Len(submissions) = Cardinality(tags)
    /\ (up /\ ~down /\ Len(submissions) >= 1) =>
         /\ Len(submissions) = 1
         /\ TagOf(submissions[1]) = UploadTag
         /\ SequenceNumberOf(submissions[1]) = call.sequenceNo
    /\ (~up /\ ~down) =>
         /\ submissions = <<>>
         /\ requests = <<>>
         /\ pc = "done" => outcome = OK
\* a mode that differs from "evaluateOffline" only in case, beside a selected
\* upload slot: the invocation ended with the one upload submission
C3_Witness ==
  /\ IsEnqueue
  /\ pc = "done"
  /\ call.uploadTextMode = EvaluateOffline
  /\ call.downloadTextMode = Str(<<"EvaluateOffline">>)
  /\ Len(submissions) = 1
  /\ outcome = OK

(* C4: every "downloadText" submission carries sequenceNo + 1; with only the
   download mode equal to "evaluateOffline" the one submission is that one and
   nothing is submitted at sequenceNo. *)
C4_DownloadAtSequenceNoPlusOne ==
  IsEnqueue =>
    /\ \A i \in 1 .. Len(submissions) :
         TagOf(submissions[i]) = DownloadTag =>
           SequenceNumberOf(submissions[i]) = call.sequenceNo + 1
    /\ (call.uploadTextMode # EvaluateOffline /\ call.downloadTextMode = EvaluateOffline) =>
         /\ Len(submissions) <= 1
         /\ \A i \in 1 .. Len(submissions) :
              /\ TagOf(submissions[i]) = DownloadTag
              /\ SequenceNumberOf(submissions[i]) # call.sequenceNo
         /\ pc = "done" => Len(submissions) = 1
\* only the download slot was selected and its request has been issued
C4_Witness ==
  /\ IsEnqueue
  /\ call.uploadTextMode = Str(<<"skip">>)
  /\ call.downloadTextMode = EvaluateOffline
  /\ call.sequenceNo = 2
  /\ Len(requests) = 1
  /\ pc = "done"

(* C5: with PURVIEW_BASE_URL missing (or empty), invokeProtectionScopeApi,
   invokeProcessContentApi and enqueueOfflinePurviewTasksAsync issue no request;
   the two clients end by throwing the configuration error and every
   submission of the orchestrator ends with it. *)
C5_NoRequestWithoutBaseUrl ==
  (UsesPurviewBaseUrl /\ env.PURVIEW_BASE_URL \in {Undefined, Str(<<>>)}) =>
    /\ requests = <<>>
    /\ \A i \in 1 .. Len(completions) : completions[i] = Threw(ConfigError)
    /\ (pc = "done" /\ ~IsEnqueue) => outcome = Threw(ConfigError)
    /\ (pc = "done" /\ submissions # <<>>) => outcome = Threw(ConfigError)
    /\ outcome.kind = "throw" => outcome.error = ConfigError
\* the orchestrator ended with the configuration error, the variable being unset
C5_Witness ==
  /\ IsEnqueue
  /\ env.PURVIEW_BASE_URL = Undefined
  /\ pc = "done"
  /\ Len(submissions) = 1
  /\ outcome = Threw(ConfigError)

(* C6: every request of invokeProcessContentApi has an If-None-Match header
   that is a string: the etag passed in, or the empty string when the etag is
   null or empty; the requests of one enqueueOfflinePurviewTasksAsync
   invocation all carry that value of the etag the caller supplied. *)
C6_IfNoneMatchAlwaysSet ==
  call.fn \in {"invokeProcessContentApi", "enqueueOfflinePurviewTasksAsync"} =>
    \A i \in 1 .. Len(requests) :
      /\ requests[i].headers.IfNoneMatch.js = "string"
      /\ requests[i].headers.IfNoneMatch =
           (IF call.etag.js = "string" THEN call.etag ELSE Str(<<>>))
\* two requests of one orchestrator invocation that was given no etag
C6_Witness ==
  /\ IsEnqueue
  /\ call.etag = Null
  /\ Len(requests) = 2
  /\ requests[1].headers.IfNoneMatch = Str(<<>>)
  /\ requests[2].headers.IfNoneMatch = Str(<<>>)

(* C7: in every payload constructProcessContentRequestBody has built, whether
   returned to the host or submitted, createdDateTime equals modifiedDateTime. *)
C7_CreatedEqualsModified ==
  call.fn \in {"constructProcessContentRequestBody", "enqueueOfflinePurviewTasksAsync"} =>
    \A b \in BuiltPayloads :
      LET entry == b.contentToProcess.contentEntries[1]
      IN entry.createdDateTime = entry.modifiedDateTime

(* C8 as stated: invokeProtectionScopeApi ends, on a success status, by
   returning the parsed body with the etag header (null when absent), and, on
   any other status, by throwing the API error with the status. A 200 whose
   body is no JSON text refutes it. *)
C8_Original ==
  (ProtectionScopeDone /\ responses[1].kind = "response") =>
    LET r == responses[1] IN
      IF r.status \in 200 .. 299
        THEN outcome = Returned([body |-> [ok |-> TRUE], etag |-> r.etag])
        ELSE /\ outcome.kind = "throw"
             /\ outcome.error.status = r.status
(* C8 amended: on a success status whose body is JSON text it returns the
   parsed body with the etag header, null when absent; on a success status
   whose body is no JSON text it throws the parse error; on any other status it
   throws the API error with the status and the body text. *)
C8_ProtectionScopeResult ==
  (ProtectionScopeDone /\ responses[1].kind = "response") =>
    LET r == responses[1] IN
      IF r.status \in 200 .. 299
        THEN IF r.body = Str(<<"{ok:true}">>)
               THEN outcome = Returned([body |-> [ok |-> TRUE], etag |-> r.etag])
               ELSE outcome = Threw(JsonSyntaxError)
        ELSE /\ outcome.kind = "throw"
             /\ outcome.error.status = r.status
             /\ outcome.error.errorText = r.body
\* a 200 with a JSON body and an etag header has been returned with that etag
C8_Witness ==
  /\ ProtectionScopeDone
  /\ responses[1].kind = "response"
  /\ responses[1].status = 200
  /\ responses[1].etag = Str(<<"W/abc">>)
  /\ outcome.kind = "return"
  /\ outcome.value.etag = Str(<<"W/abc">>)

(* C9: a failed request (rejected fetch or non-success status) is the last
   request of the invocation; each client function issues at most one request;
   the invocation does not return a value after it; it ends by throwing the
   very error raised at the failure, which is the only error raised, and that
   error has been logged on an error sink. *)
C9_FailureRethrownUnchanged ==
  /\ call.fn \in ClientFns => Len(requests) <= 1
  /\ \A i \in 1 .. Len(responses) :
       RequestFailed(i) =>
         /\ Len(requests) = i
         /\ Len(raised) = 1
         /\ raised[1] = (IF responses[i].kind = "reject" THEN responses[i].error
                         ELSE [name |-> "Error",
                               template |-> raised[1].template,
                               status |-> responses[i].status,
                               errorText |-> responses[i].body])
         /\ outcome.kind # "return"
         /\ \E k \in 1 .. Len(logs) :
              /\ logs[k].sink \in {"console.error", "context.error"}
              /\ logs[k].args = <<raised[1]>>
         /\ pc = "done" => outcome = Threw(raised[1])
\* the second request of the orchestrator was answered 403 and the invocation ended
C9_Witness ==
  /\ IsEnqueue
  /\ pc = "done"
  /\ Len(responses) = 2
  /\ responses[2].kind = "response"
  /\ responses[2].status = 403
  /\ outcome.kind = "throw"

---------------------------------------------------------------------------
(* C10: every guid generateGuid returns has length 36, hyphens at positions
   8, 13, 18 and 23 (counted from 0), "4" at position 14, one of 8, 9, a, b
   at position 19 and a lowercase hexadecimal digit everywhere else. *)
C10_GuidWellFormed == GuidReturned => WellFormedGuid(outcome.value.v)
\* a guid has been returned whose variant digit is "b" and which holds an "f" and a "0"
C10_Witness ==
  /\ GuidReturned
  /\ outcome.value.v[20] = "b"
  /\ \E p, q \in 1 .. 36 : outcome.value.v[p] = "f" /\ outcome.value.v[q] = "0"

===========================================================================
